---------------------------- MODULE Spec2Model ----------------------------
(***************************************************************************)
(* Papervista: the hybrid citation pipeline of src/main.py (rules engine   *)
(* first, generative fallback second) and the identifier lookup of         *)
(* src/explorer_cli.py.                                                    *)
(*                                                                         *)
(* Text that the code inspects character by character (the `in` tests,     *)
(* strip, replace, split, lower, upper) is a sequence of one-character     *)
(* strings.  Text the code only stores or tests for emptiness is a string. *)
(***************************************************************************)
EXTENDS Integers, Sequences, FiniteSets, TLC

VARIABLES
    pc,                 \* position of the request in POST /generate/citation
    raw,                \* the JSON body as sent by the client
    style,              \* the `style` query parameter
    item,               \* the validated CitationItemSchema
    formatted_citation, \* main.py:188
    fallback_citation,  \* main.py:194
    service,            \* what the generative service does with the call
    content,            \* response.choices[0].message.content
    sdk_bounds_wait,    \* whether the HTTP client gives up on its own
    resp,               \* the HTTP response
    rulesCalls,         \* history: calls of generate_citation_csl
    fallbackCalls,      \* history: calls of generate_citation_llm_fallback
    rulesCause,         \* history: how generate_citation_csl ended
    renderAttempted,    \* history: the CSL processor was run
    lpc,                \* position in get_metadata_for_citation
    paper_id,           \* its argument
    results,            \* the list the search endpoint answers with
    net,                \* outcome of the GET
    returned            \* its return value

vars == <<pc, raw, style, item, formatted_citation, fallback_citation,
          service, content, sdk_bounds_wait, resp, rulesCalls, fallbackCalls,
          rulesCause, renderAttempted, lpc, paper_id, results, net, returned>>

citeVars == <<pc, raw, style, item, formatted_citation, fallback_citation,
              service, content, sdk_bounds_wait, resp, rulesCalls, fallbackCalls,
              rulesCause, renderAttempted>>

lookupVars == <<lpc, paper_id, results, net, returned>>

-----------------------------------------------------------------------------
(* Python str operations on character sequences *)

\* pat in s
Contains(s, pat) ==
    \E i \in 1..(Len(s) - Len(pat) + 1) : SubSeq(s, i, i + Len(pat) - 1) = pat

Whitespace == {" ", "\n", "\t"}

RECURSIVE LStrip(_)
LStrip(s) ==
    IF s # <<>> /\ Head(s) \in Whitespace THEN LStrip(Tail(s)) ELSE s

RECURSIVE RStrip(_)
RStrip(s) ==
    IF s # <<>> /\ s[Len(s)] \in Whitespace
    THEN RStrip(SubSeq(s, 1, Len(s) - 1)) ELSE s

\* s.strip()
Strip(s) == RStrip(LStrip(s))

\* s.replace(pat, ""): leftmost non-overlapping occurrences are dropped
RECURSIVE Remove(_, _)
Remove(s, pat) ==
    IF Len(s) < Len(pat) THEN s
    ELSE IF SubSeq(s, 1, Len(pat)) = pat
         THEN Remove(SubSeq(s, Len(pat) + 1, Len(s)), pat)
         ELSE <<Head(s)>> \o Remove(Tail(s), pat)

\* s.split(sep)[-1] for a one-character sep
RECURSIVE SplitLast(_, _)
SplitLast(s, sep) ==
    IF \E i \in 1..Len(s) : s[i] = sep
    THEN SplitLast(Tail(s), sep)
    ELSE s

\* s.split(sep)[0] for a one-character sep
RECURSIVE SplitFirst(_, _)
SplitFirst(s, sep) ==
    IF s = <<>> \/ Head(s) = sep THEN <<>>
    ELSE <<Head(s)>> \o SplitFirst(Tail(s), sep)

LowerLetters == <<"a","b","c","d","e","f","g","h","i","j","k","l","m",
                  "n","o","p","q","r","s","t","u","v","w","x","y","z">>
UpperLetters == <<"A","B","C","D","E","F","G","H","I","J","K","L","M",
                  "N","O","P","Q","R","S","T","U","V","W","X","Y","Z">>

LowerChar(c) ==
    IF \E i \in 1..26 : UpperLetters[i] = c
    THEN LowerLetters[CHOOSE i \in 1..26 : UpperLetters[i] = c] ELSE c

UpperChar(c) ==
    IF \E i \in 1..26 : LowerLetters[i] = c
    THEN UpperLetters[CHOOSE i \in 1..26 : LowerLetters[i] = c] ELSE c

\* s.lower()
Lower(s) == [i \in 1..Len(s) |-> LowerChar(s[i])]

\* s.upper()
Upper(s) == [i \in 1..Len(s) |-> UpperChar(s[i])]

-----------------------------------------------------------------------------
(* String literals of main.py *)

CRITICAL_MISSING_DATA ==
    <<"C","R","I","T","I","C","A","L","_","M","I","S","S","I","N","G","_","D","A","T","A">>
CSL_STYLE_NOT_FOUND ==
    <<"C","S","L","_","S","T","Y","L","E","_","N","O","T","_","F","O","U","N","D">>
CSL_PROCESSING_FAILED ==
    <<"C","S","L","_","P","R","O","C","E","S","S","I","N","G","_","F","A","I","L","E","D">>
FAILED == <<"F","A","I","L","E","D">>
NOT_FOUND == <<"N","O","T","_","F","O","U","N","D">>
LLM_ERROR == <<"L","L","M","_","E","R","R","O","R">>
LLM_ERROR_NO_KEY ==
    <<"L","L","M","_","E","R","R","O","R",":"," ","A","P","I"," ","k","e","y"," ",
      "n","o","t"," ","c","o","n","f","i","g","u","r","e","d",".">>
LLM_ERROR_PREFIX ==
    <<"L","L","M","_","E","R","R","O","R",":"," ","C","o","u","l","d"," ","n","o","t"," ",
      "g","e","n","e","r","a","t","e"," ","c","i","t","a","t","i","o","n","."," ">>
BOTH_FAILED_PREFIX ==
    <<"B","o","t","h"," ","C","S","L"," ","a","n","d"," ","L","L","M"," ",
      "s","y","s","t","e","m","s"," ","f","a","i","l","e","d",":"," ">>
\* the grave accent (U+0060), which a string literal here cannot hold
BACKTICK == "<U+0060>"
Fence == <<BACKTICK, BACKTICK, BACKTICK>>
TagJson == <<"j","s","o","n">>
TagPlaintext == <<"p","l","a","i","n","t","e","x","t">>
SOURCE_RULES == "CSL_RULES (High Accuracy)"
SOURCE_FALLBACK == "LLM_FALLBACK (Intelligent Guess)"

\* main.py:25, the credential is a non-empty literal
GEMINI_API_KEY == <<"A","I","z","a">>

-----------------------------------------------------------------------------
(* Request bodies: each JSON field is absent, of a wrong type, or a value *)

ABSENT == <<"absent">>
BAD == <<"bad">>
Val(v) == <<"val", v>>

GoodName == [family |-> "Vaswani", given |-> "Ashish"]
\* a name object without the required `family`
NoFamily == [family |-> "<missing>", given |-> "Ashish"]

RawIds == {ABSENT, Val("X1")}
RawTitles == {ABSENT, BAD, Val(""), Val("Attention Is All You Need")}
RawAuthors == {ABSENT, Val(<<>>), Val(<<GoodName>>), Val(<<NoFamily>>)}
RawIssued == {ABSENT, Val(<<>>), Val(<<<<>>>>), Val(<<<<2017>>>>)}

RawRecords ==
    [id : RawIds, title : RawTitles, author : RawAuthors, issued : RawIssued]

StyleApa == <<"a","p","a">>
StyleApaUpper == <<"A","P","A">>
StyleKlingon == <<"k","l","i","n","g","o","n">>
Styles == {StyleApa, StyleApaUpper, StyleKlingon}

\* the files csl_styles/<name>.csl present on the server
InstalledStyles == {StyleApa}

\* pydantic validation of the body against CitationItemSchema
ValidName(n) == n.family # "<missing>"

Valid(r) ==
    /\ r.id[1] = "val"
    /\ r.title[1] = "val"
    /\ r.author[1] = "val"
    /\ \A i \in 1..Len(r.author[2]) : ValidName(r.author[2][i])
    /\ r.issued[1] = "val"

\* the CitationItemSchema instance built from a valid body
Parse(r) ==
    [id |-> r.id[2], type |-> "article-journal", title |-> r.title[2],
     author |-> r.author[2], issued |-> [date_parts |-> r.issued[2]]]

NoItem ==
    [id |-> "", type |-> "", title |-> "", author |-> <<>>,
     issued |-> [date_parts |-> <<>>]]

-----------------------------------------------------------------------------
(* generate_citation_csl *)

EntryPlain ==
    <<"D","o","e",","," ","J","."," ","(","2","0","1","7",")","."," ","N","e","t","s",".">>
EntryShouting ==
    <<"D","o","e",","," ","J","."," ","(","2","0","1","7",")","."," ",
      "W","H","Y"," ","N","E","T","S"," ","F","A","I","L","E","D",".">>

\* what the CSL processor does: raise, or yield a list of entries
LibOutcomes ==
    {<<"raise">>, <<"entries", <<>>>>,
     <<"entries", <<EntryPlain>>>>, <<"entries", <<EntryShouting>>>>}

\* bool() of a pydantic model instance: no __bool__, no __len__
ModelTruthy(obj) == TRUE

\* the processor is run without looking for the style file first
StyleExistsUnchecked(style_name) == TRUE

\* os.path.exists(os.path.join("csl_styles", f"{style_name}.csl"))
StyleExists(style_name) == style_name \in InstalledStyles

\* main.py:115
CriticalDataMissing(csl_data) ==
    \/ csl_data.author = <<>>
    \/ csl_data.title = ""
    \/ ~ModelTruthy(csl_data.issued)

\* the value returned, with how the function got there
CslRun(csl_data, style_name, lib) ==
    IF CriticalDataMissing(csl_data)
    THEN [ret |-> CRITICAL_MISSING_DATA, cause |-> "MissingData", ran |-> FALSE]
    ELSE IF ~StyleExists(style_name)
    THEN [ret |-> CSL_STYLE_NOT_FOUND, cause |-> "UnknownStyle", ran |-> FALSE]
    ELSE IF lib[1] = "raise"
    THEN [ret |-> CSL_PROCESSING_FAILED, cause |-> "ProcessingError", ran |-> TRUE]
    ELSE IF lib[2] # <<>>
    THEN [ret |-> lib[2][1], cause |-> "Entry", ran |-> TRUE]
    ELSE [ret |-> CSL_PROCESSING_FAILED, cause |-> "ProcessingError", ran |-> TRUE]

generate_citation_csl(csl_data, style_name, lib) ==
    CslRun(csl_data, style_name, lib).ret

-----------------------------------------------------------------------------
(* generate_citation_llm_fallback *)

LinePlain ==
    <<"D","o","e",","," ","J","."," ","(","n",".","d",".",")","."," ","N","e","t","s",".">>
LineJson ==
    <<"D","o","e",","," ","J","."," ","(","2","0","1","7",")","."," ",
      "j","s","o","n","l","i","n","t",".">>
CitationLines == {LinePlain, LineJson}

TagText == <<"t","e","x","t">>
FenceTags == {<<>>, TagJson, TagPlaintext, TagText}
NL == <<"\n">>

\* c between an opening fence with a language tag and a closing fence
Fenced(tag, c) == Fence \o tag \o NL \o c \o NL \o Fence
\* c between two fences on one line
FencedInline(c) == Fence \o c \o Fence

NoContent == <<"none">>

\* message contents the service may answer with
LLMContents ==
    {NoContent, Val(<<>>), Val(<<" ", "\n">>), Val(Fence), Val(LinePlain),
     Val(<<" ">> \o LinePlain \o NL)}
    \cup {Val(Fenced(t, c)) : t \in FenceTags, c \in CitationLines}
    \cup {Val(FencedInline(c)) : c \in CitationLines}

MsgNoneType == <<"N","o","n","e","T","y","p","e">>
MsgConnection ==
    <<"C","o","n","n","e","c","t","i","o","n"," ","e","r","r","o","r",".">>
MsgTimeout ==
    <<"R","e","q","u","e","s","t"," ","t","i","m","e","d"," ","o","u","t",".">>

\* main.py:173-174
PostProcess(text) ==
    Remove(Remove(Remove(Strip(text), Fence), TagJson), TagPlaintext)

\* main.py:176-177
LlmErrorString(e) == LLM_ERROR_PREFIX \o e

\* main.py:173-177 on the message content the call returned
FallbackReturn(c) ==
    IF c = NoContent THEN LlmErrorString(MsgNoneType) ELSE PostProcess(c[2])

-----------------------------------------------------------------------------
(* POST /generate/citation *)

NoResp ==
    [status |-> 0, style |-> <<>>, citation |-> <<>>, source |-> "",
     source_id |-> "", detail |-> <<>>]

\* main.py:191
CslFailed(text) ==
    \/ Contains(text, CRITICAL_MISSING_DATA)
    \/ Contains(text, FAILED)
    \/ Contains(text, NOT_FOUND)

\* main.py:196
LlmFailed(text) == Contains(text, LLM_ERROR)

LookupIdle ==
    /\ lpc = "off"
    /\ paper_id = <<>>
    /\ results = <<>>
    /\ net = "none"
    /\ returned = <<"none">>

Init ==
    /\ pc = "validate"
    /\ raw \in RawRecords
    /\ style \in Styles
    /\ item = NoItem
    /\ formatted_citation = <<>>
    /\ fallback_citation = <<>>
    /\ service = "idle"
    /\ content = NoContent
    /\ sdk_bounds_wait = FALSE
    /\ resp = NoResp
    /\ rulesCalls = 0
    /\ fallbackCalls = 0
    /\ rulesCause = "none"
    /\ renderAttempted = FALSE
    /\ LookupIdle

\* the framework validates the body before the handler is entered;
\* a body that fails is answered with 422 and the handler never runs
RejectBody ==
    /\ pc = "validate"
    /\ ~Valid(raw)
    /\ resp' = [NoResp EXCEPT !.status = 422]
    /\ pc' = "done"
    /\ UNCHANGED <<raw, style, item, formatted_citation, fallback_citation,
                   service, content, sdk_bounds_wait, rulesCalls,
                   fallbackCalls, rulesCause, renderAttempted>>
    /\ UNCHANGED lookupVars

AcceptBody ==
    /\ pc = "validate"
    /\ Valid(raw)
    /\ item' = Parse(raw)
    /\ pc' = "rules"
    /\ UNCHANGED <<raw, style, formatted_citation, fallback_citation,
                   service, content, sdk_bounds_wait, resp, rulesCalls,
                   fallbackCalls, rulesCause, renderAttempted>>
    /\ UNCHANGED lookupVars

\* main.py:188
TryRules ==
    /\ pc = "rules"
    /\ \E lib \in LibOutcomes :
          /\ formatted_citation' = generate_citation_csl(item, Lower(style), lib)
          /\ rulesCause' = CslRun(item, Lower(style), lib).cause
          /\ renderAttempted' = CslRun(item, Lower(style), lib).ran
    /\ rulesCalls' = rulesCalls + 1
    /\ pc' = "check_csl"
    /\ UNCHANGED <<raw, style, item, fallback_citation, service, content,
                   sdk_bounds_wait, resp, fallbackCalls>>
    /\ UNCHANGED lookupVars

\* main.py:191 false, 210-215
ReturnRules ==
    /\ pc = "check_csl"
    /\ ~CslFailed(formatted_citation)
    /\ resp' = [NoResp EXCEPT !.status = 200, !.style = Upper(style),
                              !.citation = formatted_citation,
                              !.source = SOURCE_RULES, !.source_id = item.id]
    /\ pc' = "done"
    /\ UNCHANGED <<raw, style, item, formatted_citation, fallback_citation,
                   service, content, sdk_bounds_wait, rulesCalls,
                   fallbackCalls, rulesCause, renderAttempted>>
    /\ UNCHANGED lookupVars

\* main.py:191 true, 193-194 up to the blocking call at 164
CallFallback ==
    /\ pc = "check_csl"
    /\ CslFailed(formatted_citation)
    /\ fallbackCalls' = fallbackCalls + 1
    /\ IF GEMINI_API_KEY = <<>>
       THEN /\ fallback_citation' = LLM_ERROR_NO_KEY
            /\ pc' = "check_llm"
            /\ UNCHANGED <<service, sdk_bounds_wait>>
       ELSE /\ pc' = "llm_wait"
            /\ service' \in {"answers", "errors", "silent"}
            /\ sdk_bounds_wait' \in BOOLEAN
            /\ UNCHANGED fallback_citation
    /\ UNCHANGED <<raw, style, item, formatted_citation, content, resp,
                   rulesCalls, rulesCause, renderAttempted>>
    /\ UNCHANGED lookupVars

\* the service answers: main.py:173-174, or 176-177 when content is None
LlmAnswers ==
    /\ pc = "llm_wait"
    /\ service = "answers"
    /\ \E c \in LLMContents :
          /\ content' = c
          /\ fallback_citation' = FallbackReturn(c)
    /\ pc' = "check_llm"
    /\ UNCHANGED <<raw, style, item, formatted_citation, service,
                   sdk_bounds_wait, resp, rulesCalls, fallbackCalls,
                   rulesCause, renderAttempted>>
    /\ UNCHANGED lookupVars

\* the call raises: main.py:176-177
LlmRaises ==
    /\ pc = "llm_wait"
    /\ service = "errors"
    /\ fallback_citation' = LlmErrorString(MsgConnection)
    /\ pc' = "check_llm"
    /\ UNCHANGED <<raw, style, item, formatted_citation, service, content,
                   sdk_bounds_wait, resp, rulesCalls, fallbackCalls,
                   rulesCause, renderAttempted>>
    /\ UNCHANGED lookupVars

\* the service stays silent; the code passes no timeout (main.py:150-171),
\* so the wait ends only if the HTTP client gives up on its own
LlmTimesOut ==
    /\ pc = "llm_wait"
    /\ service = "silent"
    /\ sdk_bounds_wait
    /\ fallback_citation' = LlmErrorString(MsgTimeout)
    /\ pc' = "check_llm"
    /\ UNCHANGED <<raw, style, item, formatted_citation, service, content,
                   sdk_bounds_wait, resp, rulesCalls, fallbackCalls,
                   rulesCause, renderAttempted>>
    /\ UNCHANGED lookupVars

\* main.py:196-200
RaiseBothFailed ==
    /\ pc = "check_llm"
    /\ LlmFailed(fallback_citation)
    /\ resp' = [NoResp EXCEPT !.status = 500,
                              !.detail = BOTH_FAILED_PREFIX \o fallback_citation]
    /\ pc' = "done"
    /\ UNCHANGED <<raw, style, item, formatted_citation, fallback_citation,
                   service, content, sdk_bounds_wait, rulesCalls,
                   fallbackCalls, rulesCause, renderAttempted>>
    /\ UNCHANGED lookupVars

\* main.py:202-207
ReturnFallback ==
    /\ pc = "check_llm"
    /\ ~LlmFailed(fallback_citation)
    /\ resp' = [NoResp EXCEPT !.status = 200, !.style = Upper(style),
                              !.citation = fallback_citation,
                              !.source = SOURCE_FALLBACK, !.source_id = item.id]
    /\ pc' = "done"
    /\ UNCHANGED <<raw, style, item, formatted_citation, fallback_citation,
                   service, content, sdk_bounds_wait, rulesCalls,
                   fallbackCalls, rulesCause, renderAttempted>>
    /\ UNCHANGED lookupVars

Next ==
    \/ RejectBody
    \/ AcceptBody
    \/ TryRules
    \/ ReturnRules
    \/ CallFallback
    \/ LlmAnswers
    \/ LlmRaises
    \/ LlmTimesOut
    \/ RaiseBothFailed
    \/ ReturnFallback

Spec == Init /\ [][Next]_vars

\* the handler keeps running whenever it can take a step
LiveSpec == Spec /\ WF_vars(Next)

-----------------------------------------------------------------------------
(* explorer_cli.py: get_metadata_for_citation *)

MaxResults == 2

Id1v1 == <<"1","v","1">>
Id1v2 == <<"1","v","2">>
Id2v1 == <<"2","v","1">>
Id1 == <<"1">>
IdAbs1v3 == <<"a","b","s","/","1","v","3">>
ResultIds == {Id1v1, Id1v2, Id2v1, Id1, IdAbs1v3}

\* one element of the JSON list answered by GET /search/papers
Papers ==
    [id : ResultIds, title : {"A", "B"}, author : {<<GoodName>>},
     issued : {[date_parts |-> <<<<2017, 6, 12>>>>]},
     container_title : {"cs.CL"}, url : {"http://arxiv.org/abs/x"}]

ResultLists == UNION {[1..n -> Papers] : n \in 0..MaxResults}

PaperIds == {<<"1">>, <<"2">>, <<"3">>}

NetOutcomes == {"ok", "ConnectionError", "HTTPError", "ReadTimeout"}

None == <<"none">>

\* explorer_cli.py:35-36
ShortId(id) == SplitFirst(SplitLast(id, "/"), "v")

\* explorer_cli.py:33-41, the index the loop stops at, 0 when it runs out
RECURSIVE LastMatchingFrom(_, _, _)
LastMatchingFrom(rs, pid, i) ==
    IF i < 1 THEN 0
    ELSE IF ShortId(rs[i].id) = pid THEN i
    ELSE LastMatchingFrom(rs, pid, i - 1)

RECURSIVE MatchingFrom(_, _, _)
MatchingFrom(rs, pid, i) ==
    IF i > Len(rs) THEN 0
    ELSE IF ShortId(rs[i].id) = pid THEN i
    ELSE MatchingFrom(rs, pid, i + 1)

\* a loop that forgets to break keeps the last match
MatchingPaperLast(rs, pid) == LastMatchingFrom(rs, pid, Len(rs))

MatchingPaper(rs, pid) == MatchingFrom(rs, pid, 1)

\* explorer_cli.py:45-53
CitationItemOf(paper) ==
    [id |-> paper.id, type |-> "article-journal", title |-> paper.title,
     author |-> paper.author, issued |-> paper.issued,
     container_title |-> paper.container_title, URL |-> paper.url]

\* explorer_cli.py:43-57
LookupResult(rs, pid) ==
    IF MatchingPaper(rs, pid) # 0
    THEN <<"item", CitationItemOf(rs[MatchingPaper(rs, pid)])>>
    ELSE None

CiteIdle ==
    /\ pc = "off"
    /\ raw = [id |-> ABSENT, title |-> ABSENT, author |-> ABSENT, issued |-> ABSENT]
    /\ style = StyleApa
    /\ item = NoItem
    /\ formatted_citation = <<>>
    /\ fallback_citation = <<>>
    /\ service = "idle"
    /\ content = NoContent
    /\ sdk_bounds_wait = FALSE
    /\ resp = NoResp
    /\ rulesCalls = 0
    /\ fallbackCalls = 0
    /\ rulesCause = "none"
    /\ renderAttempted = FALSE

LookupInit ==
    /\ CiteIdle
    /\ lpc = "call"
    /\ paper_id \in PaperIds
    /\ results \in ResultLists
    /\ net \in NetOutcomes
    /\ returned = None

\* explorer_cli.py:60-65
GetFails ==
    /\ lpc = "call"
    /\ net \in {"ConnectionError", "HTTPError"}
    /\ returned' = None
    /\ lpc' = "done"
    /\ UNCHANGED <<paper_id, results, net>>
    /\ UNCHANGED citeVars

\* explorer_cli.py:23-27: a read timeout is neither of the two caught classes
GetTimesOut ==
    /\ lpc = "call"
    /\ net = "ReadTimeout"
    /\ returned' = <<"raise", "ReadTimeout">>
    /\ lpc' = "done"
    /\ UNCHANGED <<paper_id, results, net>>
    /\ UNCHANGED citeVars

\* explorer_cli.py:29-57
MatchAndReturn ==
    /\ lpc = "call"
    /\ net = "ok"
    /\ returned' = LookupResult(results, paper_id)
    /\ lpc' = "done"
    /\ UNCHANGED <<paper_id, results, net>>
    /\ UNCHANGED citeVars

LookupNext == GetFails \/ GetTimesOut \/ MatchAndReturn

LookupSpec == LookupInit /\ [][LookupNext]_vars

-----------------------------------------------------------------------------
(* Claims *)

RulesFailures == {"MissingData", "UnknownStyle", "ProcessingError"}

\* the year component of `issued`
HasYear(issued) == issued.date_parts # <<>> /\ issued.date_parts[1] # <<>>

\* C1: whenever the Rules Engine produced a bibliography entry, whatever its
\* text, the Fallback Generator is not invoked and the request ends with
\* that entry and source=RULES.
C1_EntryIsReturnedAsRules ==
    rulesCause = "Entry" =>
        /\ fallbackCalls = 0
        /\ pc = "done" => /\ resp.source = SOURCE_RULES
                          /\ resp.citation = formatted_citation

\* C2: a body that fails validation is not answered with a validation
\* error: the Fallback Generator is invoked and the request ends with
\* source=FALLBACK or with the BothFailed failure.
C2_InvalidBodyGoesToFallback ==
    (pc = "done" /\ ~Valid(raw)) =>
        /\ fallbackCalls = 1
        /\ resp.source = SOURCE_FALLBACK \/ resp.status = 500

\* C3: for a record that reached the Rules Engine with empty authors, an
\* empty title or no year, generate_citation_csl returns
\* CRITICAL_MISSING_DATA without running the processor, and the request then
\* goes through the Fallback Generator.
C3_MissingFieldIsMissingData ==
    (rulesCalls = 1 /\ (\/ item.author = <<>>
                        \/ item.title = ""
                        \/ ~HasYear(item.issued))) =>
        /\ rulesCause = "MissingData"
        /\ formatted_citation = CRITICAL_MISSING_DATA
        /\ ~renderAttempted
        /\ pc = "done" => fallbackCalls = 1

\* C4: when the Rules Engine failed and the Fallback Generator failed, the
\* response is a 500 whose detail carries the rules-failure cause and the
\* fallback-failure cause.
C4_DetailCarriesBothCauses ==
    (pc = "done" /\ rulesCause \in RulesFailures /\ fallbackCalls = 1
        /\ LlmFailed(fallback_citation)) =>
        /\ resp.status = 500
        /\ Contains(resp.detail, fallback_citation)
        /\ Contains(resp.detail, formatted_citation)

\* C5: a request whose lower-cased style has no style file never ends with
\* source=RULES; when its body is a record (a CitationItemSchema) it ends
\* with source=FALLBACK or with the 500 failure.
C5_UnknownStyleNeverRules ==
    (pc = "done" /\ Lower(style) \notin InstalledStyles) =>
        /\ resp.source # SOURCE_RULES
        /\ Valid(raw) => \/ resp.status = 200 /\ resp.source = SOURCE_FALLBACK
                         \/ resp.status = 500

\* C5: a complete record with an unknown style was answered by the fallback
C5_Witness ==
    /\ pc = "done"
    /\ Lower(style) \notin InstalledStyles
    /\ rulesCause = "UnknownStyle"
    /\ resp.source = SOURCE_FALLBACK
    /\ resp.citation = LinePlain

\* C6: the Fallback Generator returns a non-empty citation or an error
\* string, and no source=FALLBACK response has an empty citation.
C6_FallbackNeverEmpty ==
    (fallbackCalls = 1 /\ pc \in {"check_llm", "done"}) =>
        /\ fallback_citation # <<>>
        /\ resp.source = SOURCE_FALLBACK => resp.citation # <<>>

\* C7: when the service answers with a citation line c enclosed in fence
\* markers, with or without a language tag, the citation returned is c.
C7_FencedLineIsReturnedIntact ==
    \A c \in CitationLines :
        (pc = "done" /\ (\/ content = Val(FencedInline(c))
                         \/ \E t \in FenceTags : content = Val(Fenced(t, c)))) =>
            /\ resp.source = SOURCE_FALLBACK
            /\ resp.citation = c

\* C8: the Rules Engine runs exactly once, the Fallback Generator at most
\* once and only after it, and a finished request is in exactly one of the
\* three outcomes, its citation being the output of the stage in `source`.
C8_StrictTwoStage ==
    /\ rulesCalls <= 1
    /\ fallbackCalls <= 1
    /\ fallbackCalls = 1 => rulesCalls = 1 /\ pc \notin {"validate", "rules"}
    /\ pc = "done" =>
        /\ rulesCalls = 1
        /\ \/ /\ resp.status = 200 /\ resp.source = SOURCE_RULES
              /\ resp.citation = formatted_citation /\ fallbackCalls = 0
           \/ /\ resp.status = 200 /\ resp.source = SOURCE_FALLBACK
              /\ resp.citation = fallback_citation /\ fallbackCalls = 1
           \/ /\ resp.status = 500 /\ resp.source = "" /\ fallbackCalls = 1

\* C9: a request waiting on a generative service that never answers
\* eventually ends in the BothFailed failure.
C9_SilentServiceEndsInBothFailed ==
    (pc = "llm_wait" /\ service = "silent") ~> (pc = "done" /\ resp.status = 500)

\* b is id's last '/'-segment cut at its first "v"
IsBaseOf(b, id) ==
    \E k \in 0..Len(id) :
        /\ k = 0 \/ id[k] = "/"
        /\ \A j \in (k + 1)..Len(id) : id[j] # "/"
        /\ \E m \in k..Len(id) :
              /\ b = SubSeq(id, k + 1, m)
              /\ \A j \in (k + 1)..m : id[j] # "v"
              /\ m = Len(id) \/ id[m + 1] = "v"

Matches == {i \in 1..Len(results) : IsBaseOf(paper_id, results[i].id)}

\* C10: given the list of results, the item returned is built from the
\* first result whose base identifier equals paper_id and keeps its full
\* versioned id; None is returned exactly when no result matches.
C10_FirstMatchWins ==
    (lpc = "done" /\ net = "ok") =>
        /\ returned = None <=> Matches = {}
        /\ Matches # {} =>
              \E i \in Matches :
                 /\ \A j \in Matches : i <= j
                 /\ returned[1] = "item"
                 /\ returned[2].id = results[i].id
                 /\ returned[2].title = results[i].title
                 /\ returned[2].author = results[i].author
                 /\ returned[2].issued = results[i].issued
                 /\ returned[2].container_title = results[i].container_title
                 /\ returned[2].URL = results[i].url
                 /\ returned[2].type = "article-journal"

\* C10: two results share the base identifier with different versions and
\* differ otherwise; the first was returned
C10_Witness ==
    /\ lpc = "done"
    /\ net = "ok"
    /\ Len(results) = 2
    /\ Matches = {1, 2}
    /\ results[1].id # results[2].id
    /\ results[1].title # results[2].title
    /\ returned = <<"item", CitationItemOf(results[1])>>

=============================================================================
